---- MODULE Spec2Model ----
(***************************************************************************)
(* A model of convert.py: the command-line shell (__main__), the two       *)
(* conversion drivers (convert_md_to_output, convert_docx_to_md), the PDF  *)
(* backend selection, and the text transforms (strip_yaml_front_matter,    *)
(* the horizontal-rule substitution, render_mermaid_blocks,                *)
(* detect_direction).                                                      *)
(*                                                                         *)
(* Texts and paths are sequences of one-character strings; "BOM" stands    *)
(* for the single character U+FEFF.  Regular expressions are modelled by   *)
(* operators that match the way Python's re module does (anchors, greedy   *)
(* and non-greedy repetition, leftmost match).                             *)
(***************************************************************************)
EXTENDS Integers, Sequences, FiniteSets, TLC

(***************************************************************************)
(* Bounds of the model.                                                    *)
(***************************************************************************)
MaxBlocks == 2      \* mermaid blocks in the document handled by the driver
MaxPathFrags == 3   \* fragments concatenated into an input path (Spec)
MaxTextFrags == 4   \* fragments concatenated into a text (SpecText)
MaxDocFrags == 3    \* fragments concatenated into a document (SpecMermaid)

NoExit == 0 - 1     \* the process is still running

(***************************************************************************)
(* Generic helpers on sequences of characters.                             *)
(***************************************************************************)
Slice(s, a, b) == IF a > b THEN <<>> ELSE SubSeq(s, a, b)

From(s, a) == Slice(s, a, Len(s))

StartsWithAt(s, i, p) ==
    /\ i + Len(p) - 1 <= Len(s)
    /\ \A k \in 1..Len(p) : s[i + k - 1] = p[k]

\* str.rfind: the highest index at which c occurs, 0 when absent.
RFind(s, c) ==
    IF \E i \in 1..Len(s) : s[i] = c
    THEN CHOOSE i \in 1..Len(s) : s[i] = c /\ \A j \in (i+1)..Len(s) : s[j] # c
    ELSE 0

LowerChar(c) ==
    CASE c = "D" -> "d"
      [] c = "O" -> "o"
      [] c = "C" -> "c"
      [] c = "X" -> "x"
      [] OTHER -> c

Lower_Identity(s) == s

\* str.lower
Lower(s) == [i \in 1..Len(s) |-> LowerChar(s[i])]

(***************************************************************************)
(* detect_direction and os.path.splitext (POSIX separators).               *)
(***************************************************************************)
\* genericpath._splitext: the index of the dot that starts the extension,
\* 0 when the path has no extension (no dot after the last separator, or
\* only leading dots in the file name).
ExtDotIndex(p) ==
    LET sepIndex == RFind(p, "/")
        dotIndex == RFind(p, ".")
    IN  IF /\ dotIndex > sepIndex
           /\ \E k \in (sepIndex + 1)..(dotIndex - 1) : p[k] # "."
        THEN dotIndex
        ELSE 0

splitext(p) ==
    LET d == ExtDotIndex(p)
    IN  IF d = 0 THEN <<p, <<>>>> ELSE <<Slice(p, 1, d - 1), From(p, d)>>

DOCX_EXT == <<".", "d", "o", "c", "x">>
MD_EXT == <<".", "m", "d">>

FormatChars(fmt) ==
    CASE fmt = "docx" -> <<"d", "o", "c", "x">>
      [] fmt = "pdf" -> <<"p", "d", "f">>
      [] OTHER -> <<>>

detect_direction(input_file, output_format) ==
    LET ext == Lower(splitext(input_file)[2])
        base == splitext(input_file)[1]
    IN  IF ext = DOCX_EXT
        THEN [direction |-> "docx2md", default_output |-> base \o MD_EXT]
        ELSE [direction |-> "md2out",
              default_output |-> base \o <<".">> \o FormatChars(output_format)]

(***************************************************************************)
(* strip_yaml_front_matter                                                 *)
(***************************************************************************)
BOM == "BOM"

RECURSIVE lstrip_bom(_)
\* text.lstrip(BOM): every leading byte-order mark is removed.
lstrip_bom(t) ==
    IF Len(t) > 0 /\ t[1] = BOM THEN lstrip_bom(Tail(t)) ELSE t

RECURSIVE SkipBlanks(_, _)
\* [ \t]* from position i: the position after the run of blanks.
SkipBlanks(t, i) ==
    IF i <= Len(t) /\ t[i] \in {" ", "\t"} THEN SkipBlanks(t, i + 1) ELSE i

\* \r?\n at position i: the position after it, 0 when it does not match.
MatchEol(t, i) ==
    LET j == IF i <= Len(t) /\ t[i] = "\r" THEN i + 1 ELSE i
    IN  IF j <= Len(t) /\ t[j] = "\n" THEN j + 1 ELSE 0

DASHES == <<"-", "-", "-">>
DOTS == <<".", ".", ".">>
STARS == <<"*", "*", "*">>

\* \A---[ \t]*\r?\n : the position after the opening line, 0 when no match.
OpenEnd(t) ==
    IF StartsWithAt(t, 1, DASHES) THEN MatchEol(t, SkipBlanks(t, 4)) ELSE 0

\* \r?\n(?:---|\.\.\.)[ \t]*\r?\n at position q: the position after it, 0
\* when it does not match there.
CloseEndAt(t, q) ==
    LET a == MatchEol(t, q)
    IN  IF a = 0 THEN 0
        ELSE IF StartsWithAt(t, a, DASHES) \/ StartsWithAt(t, a, DOTS)
        THEN MatchEol(t, SkipBlanks(t, a + 3))
        ELSE 0

\* A match that runs to the last closing line instead of the first (.* for .*?).
FrontMatterEnd_Greedy(t) ==
    LET o == OpenEnd(t)
        qs == {q \in o..(Len(t) + 1) : CloseEndAt(t, q) # 0}
    IN  IF o = 0 \/ qs = {} THEN 0
        ELSE CloseEndAt(t, CHOOSE q \in qs : \A r \in qs : r <= q)

\* The whole pattern, anchored at the start: the position after the match, 0
\* when there is none.  .*? is non-greedy (DOTALL): the closing line is the
\* first position after the opening line at which the rest matches.
FrontMatterEnd(t) ==
    LET o == OpenEnd(t)
        qs == {q \in o..(Len(t) + 1) : CloseEndAt(t, q) # 0}
    IN  IF o = 0 \/ qs = {} THEN 0
        ELSE CloseEndAt(t, CHOOSE q \in qs : \A r \in qs : q <= r)

\* The function without its first statement.
strip_yaml_front_matter_KeepBOM(text) ==
    LET e == FrontMatterEnd(text)
        result == IF e = 0 THEN text ELSE From(text, e)
    IN  [result |-> result, warned |-> (result = text)]

\* Returns the text and whether "No YAML front matter detected" was logged.
strip_yaml_front_matter(text) ==
    LET t == lstrip_bom(text)
        e == FrontMatterEnd(t)
        result == IF e = 0 THEN t ELSE From(t, e)
    IN  [result |-> result, warned |-> (result = t)]

(***************************************************************************)
(* The horizontal-rule substitution of convert_md_to_output:               *)
(*   re.sub(r'^---\s*$', '***', content, flags=re.MULTILINE)               *)
(***************************************************************************)
Whitespace == {" ", "\t", "\n", "\r"}

\* ^ with re.MULTILINE
AtLineStart(t, i) == i = 1 \/ t[i - 1] = "\n"

\* $ with re.MULTILINE: at the end of the text or before a newline
AtLineEnd(t, j) == j = Len(t) + 1 \/ t[j] = "\n"

\* ^---\s*$ at position i: the position after the match, 0 when there is
\* none.  \s* is greedy and backtracks: the match ends at the last position
\* of the whitespace run at which $ matches.
RuleMatchEnd(t, i) ==
    IF ~(AtLineStart(t, i) /\ StartsWithAt(t, i, DASHES)) THEN 0
    ELSE LET ends == {j \in (i + 3)..(Len(t) + 1) :
                         /\ \A k \in (i + 3)..(j - 1) : t[k] \in Whitespace
                         /\ AtLineEnd(t, j)}
         IN  IF ends = {} THEN 0
             ELSE CHOOSE j \in ends : \A k \in ends : k <= j

RECURSIVE SubRulesFrom(_, _)
SubRulesFrom(t, i) ==
    IF i > Len(t) THEN <<>>
    ELSE LET e == RuleMatchEnd(t, i)
         IN  IF e # 0 THEN STARS \o SubRulesFrom(t, e)
             ELSE <<t[i]>> \o SubRulesFrom(t, i + 1)

normalize_rules(content) == SubRulesFrom(content, 1)

(***************************************************************************)
(* render_mermaid_blocks                                                   *)
(***************************************************************************)
\* BT stands for the single backtick character.
BT == "BT"
MERMAID_OPEN == <<BT, BT, BT, "m", "e", "r", "m", "a", "i", "d">>
FENCE == <<BT, BT, BT>>

\* The pattern of a fenced mermaid block, fence + mermaid\s*\n(.*?) + fence,
\* at position i (DOTALL): the last position of the
\* match, 0 when there is none.  \s*\n ends at a newline of the whitespace
\* run after the tag; the payload ends at the first fence after it.
BlockMatchEnd(t, i) ==
    IF ~StartsWithAt(t, i, MERMAID_OPEN) THEN 0
    ELSE LET w == i + Len(MERMAID_OPEN)
             nls == {j \in w..Len(t) :
                        t[j] = "\n" /\ \A k \in w..(j - 1) : t[k] \in Whitespace}
             closers == {k \in w..Len(t) :
                            /\ StartsWithAt(t, k, FENCE)
                            /\ \E j \in nls : j < k}
         IN  IF closers = {} THEN 0
             ELSE (CHOOSE k \in closers : \A c \in closers : k <= c) + 2

RECURSIVE finditer(_, _)
\* list(pattern.finditer(content)): the matches from position pos on, left
\* to right and not overlapping, as records of first and last position.
finditer(t, pos) ==
    LET starts == {i \in pos..Len(t) : BlockMatchEnd(t, i) # 0}
    IN  IF starts = {} THEN <<>>
        ELSE LET i == CHOOSE a \in starts : \A b \in starts : a <= b
             IN  <<[start |-> i, end |-> BlockMatchEnd(t, i)]>>
                     \o finditer(t, BlockMatchEnd(t, i) + 1)

\* reversed(matches)
Reversed(seq) == [i \in 1..Len(seq) |-> seq[Len(seq) - i + 1]]

DiagramNum_LoopIndex(n, i) == i

\* diagram_num = len(matches) - i + 1
DiagramNum(n, i) == n - i + 1

\* The image reference ![Diagram N](path of mermaid_N.png), one element of
\* the text.
ImageRef(num) ==
    "![Diagram " \o ToString(num) \o "](mermaid_diagrams/mermaid_"
        \o ToString(num) \o ".png)"

\* content[:match.start()] + replacement + content[match.end():]
Splice(content, match, replacement) ==
    Slice(content, 1, match.start - 1) \o <<replacement>>
        \o From(content, match.end + 1)

(***************************************************************************)
(* The driver: state of one run of the program.                            *)
(***************************************************************************)
VARIABLES
    pc,             \* position of the run in __main__ and the drivers
    input_file,     \* path of the input, <<>> when not given
    output_file,    \* path of the destination, <<>> when not given
    output_format,  \* "none", "docx" or "pdf"
    direction,      \* "none", "docx2md" or "md2out"
    default_output, \* default destination computed by detect_direction
    exitCode,       \* NoExit while running, then the process's exit status
    cancelled,      \* the user interrupted an interactive prompt
    exc,            \* exception in flight inside the driver: "none", "OSError", "Exception"
    use_weasyprint, \* convert_md_to_output's flag
    nBlocks,        \* mermaid blocks in the document read
    tmp,            \* scratch directory: "none", "held", "released"
    acquisitions,   \* how many times the scratch directory was created
    scratchFiles,   \* files present under the scratch directory
    scratchOut,     \* the scratch output file: "absent", "partial", "complete"
    dest,           \* the destination file: "untouched", "partial", "complete"
    calls,          \* history of external calls, in order
    failedAt        \* stage whose failure ended the run, "none" otherwise

driverVars == <<pc, input_file, output_file, output_format, direction,
                default_output, exitCode, cancelled, exc, use_weasyprint,
                nBlocks, tmp, acquisitions, scratchFiles, scratchOut, dest,
                calls, failedAt>>

\* The text transforms applied to one document text.
VARIABLES
    tstage,      \* "off", "input", "stripped", "restripped", "normalised"
    text,        \* the document text
    nfrags,      \* fragments concatenated into text so far
    once,        \* strip_yaml_front_matter(text)
    warned,      \* the first application logged that nothing was stripped
    twice,       \* strip_yaml_front_matter(once)
    normalised   \* the rule substitution applied to once

textVars == <<tstage, text, nfrags, once, warned, twice, normalised>>

\* One call of render_mermaid_blocks.
VARIABLES
    mstage,      \* "off", "input", "loop", "done"
    content0,    \* the content passed in
    dfrags,      \* fragments concatenated into content0 so far
    content,     \* the local variable content; the return value when done
    matches,     \* the blocks found, in document order
    loop_i,      \* the loop counter i of enumerate(reversed(matches), 1)
    images,      \* numbers k of the files mermaid_k.png written
    renderedAt,  \* start positions of the blocks whose render succeeded
    attempts     \* start positions of the blocks requested, in request order

mermaidVars == <<mstage, content0, dfrags, content, matches, loop_i, images,
                 renderedAt, attempts>>

vars == <<driverVars, textVars, mermaidVars>>

MermaidOff ==
    /\ mstage = "off"
    /\ content0 = <<>>
    /\ dfrags = 0
    /\ content = <<>>
    /\ matches = <<>>
    /\ loop_i = 0
    /\ images = {}
    /\ renderedAt = {}
    /\ attempts = <<>>

TextOff ==
    /\ tstage = "off"
    /\ text = <<>>
    /\ nfrags = 0
    /\ once = <<>>
    /\ warned = FALSE
    /\ twice = <<>>
    /\ normalised = <<>>

\* Paths the user may give on the command line or type at the prompt: the
\* concatenations of at most MaxPathFrags of these fragments.
PathFrags ==
    { <<"r">>, <<".">>, <<"/">>,
      <<".", "d", "o", "c", "x">>,
      <<".", "D", "o", "c", "X">>,
      <<".", "m", "d">> }

RECURSIVE Concats(_, _)
Concats(frags, n) ==
    IF n = 0 THEN {<<>>}
    ELSE LET shorter == Concats(frags, n - 1)
         IN  shorter \cup {s \o f : s \in shorter, f \in frags}

InputPaths == Concats(PathFrags, MaxPathFrags) \ {<<>>}

UserOutput == <<"o", "u", "t">>

Init ==
    /\ pc = "parse_args"
    /\ input_file = <<>>
    /\ output_file = <<>>
    /\ output_format = "none"
    /\ direction = "none"
    /\ default_output = <<>>
    /\ exitCode = NoExit
    /\ cancelled = FALSE
    /\ exc = "none"
    /\ use_weasyprint = FALSE
    /\ nBlocks = 0
    /\ tmp = "none"
    /\ acquisitions = 0
    /\ scratchFiles = {}
    /\ scratchOut = "absent"
    /\ dest = "untouched"
    /\ calls = <<>>
    /\ failedAt = "none"
    /\ TextOff
    /\ MermaidOff

\* sys.exit(code), or the interpreter ending the process with that status.
Exit(code) ==
    /\ pc' = "done"
    /\ exitCode' = code

Contains(seq, e) == \E i \in 1..Len(seq) : seq[i] = e

Count(seq, S) == Cardinality({i \in 1..Len(seq) : seq[i] \in S})

(***************************************************************************)
(* __main__                                                                *)
(***************************************************************************)
FormatChoices == {"docx", "pdf"}

\* parser.parse_args(): a usage error ends the process with status 2 and
\* -h/--help with status 0; otherwise the three arguments are bound.
ParseArgs ==
    /\ UNCHANGED <<textVars, mermaidVars>>
    /\ pc = "parse_args"
    /\ \E argv \in {"ok", "usage_error", "help"} :
         CASE argv = "usage_error" ->
                /\ Exit(2)
                /\ failedAt' = "usage_error"
                /\ UNCHANGED <<input_file, output_file, output_format>>
           [] argv = "help" ->
                /\ Exit(0)
                /\ failedAt' = "help"
                /\ UNCHANGED <<input_file, output_file, output_format>>
           [] OTHER ->
                /\ \E i \in InputPaths \cup {<<>>}, o \in {<<>>, UserOutput},
                      f \in FormatChoices \cup {"none"} :
                     /\ input_file' = i
                     /\ output_file' = o
                     /\ output_format' = f
                /\ pc' = "ask_input"
                /\ UNCHANGED <<exitCode, failedAt>>
    /\ UNCHANGED <<direction, default_output, cancelled, exc, use_weasyprint,
                   nBlocks, tmp, acquisitions, scratchFiles, scratchOut, dest,
                   calls>>

\* Interactive mode: ask for the input file if not provided.
AskInput ==
    /\ UNCHANGED <<textVars, mermaidVars>>
    /\ pc = "ask_input"
    /\ IF input_file # <<>>
       THEN /\ pc' = "require_input"
            /\ UNCHANGED <<input_file, exitCode, cancelled, failedAt>>
       ELSE \E typed \in {"text", "KeyboardInterrupt", "EOFError"} :
              CASE typed = "KeyboardInterrupt" ->
                     /\ Exit(0)
                     /\ cancelled' = TRUE
                     /\ UNCHANGED <<input_file, failedAt>>
                [] typed = "EOFError" ->
                     \* not caught: the interpreter reports it and exits 1
                     /\ Exit(1)
                     /\ failedAt' = "prompt"
                     /\ UNCHANGED <<input_file, cancelled>>
                [] OTHER ->
                     /\ \E i \in InputPaths \cup {<<>>} : input_file' = i
                     /\ pc' = "require_input"
                     /\ UNCHANGED <<exitCode, cancelled, failedAt>>
    /\ UNCHANGED <<output_file, output_format, direction, default_output, exc,
                   use_weasyprint, nBlocks, tmp, acquisitions, scratchFiles,
                   scratchOut, dest, calls>>

RequireInput ==
    /\ UNCHANGED <<textVars, mermaidVars>>
    /\ pc = "require_input"
    /\ IF input_file = <<>>
       THEN /\ Exit(1)
            /\ failedAt' = "no_input"
       ELSE /\ pc' = "pick_format"
            /\ UNCHANGED <<exitCode, failedAt>>
    /\ UNCHANGED <<input_file, output_file, output_format, direction,
                   default_output, cancelled, exc, use_weasyprint, nBlocks, tmp,
                   acquisitions, scratchFiles, scratchOut, dest, calls>>

\* choose_output_format's answer for what the user typed.
choose_output_format(selected, default_format) ==
    IF selected = "" THEN default_format
    ELSE IF selected \notin FormatChoices THEN default_format
    ELSE selected

\* If no format is provided for Markdown input, ask the user (default docx).
PickFormat ==
    /\ UNCHANGED <<textVars, mermaidVars>>
    /\ pc = "pick_format"
    /\ IF output_format # "none"
       THEN /\ pc' = "detect"
            /\ UNCHANGED <<output_format, exitCode, cancelled>>
       ELSE IF Lower(splitext(input_file)[2]) = DOCX_EXT
       THEN /\ output_format' = "docx"
            /\ pc' = "detect"
            /\ UNCHANGED <<exitCode, cancelled>>
       ELSE \E typed \in {"", "docx", "pdf", "txt", "KeyboardInterrupt", "EOFError"} :
              CASE typed = "KeyboardInterrupt" ->
                     /\ Exit(0)
                     /\ cancelled' = TRUE
                     /\ UNCHANGED output_format
                [] typed = "EOFError" ->
                     /\ output_format' = "docx"
                     /\ pc' = "detect"
                     /\ UNCHANGED <<exitCode, cancelled>>
                [] OTHER ->
                     /\ output_format' = choose_output_format(typed, "docx")
                     /\ pc' = "detect"
                     /\ UNCHANGED <<exitCode, cancelled>>
    /\ UNCHANGED <<input_file, output_file, direction, default_output, exc,
                   use_weasyprint, nBlocks, tmp, acquisitions, scratchFiles,
                   scratchOut, dest, calls, failedAt>>

\* Auto-detect conversion direction.
Detect ==
    /\ UNCHANGED <<textVars, mermaidVars>>
    /\ pc = "detect"
    /\ direction' = detect_direction(input_file, output_format).direction
    /\ default_output' = detect_direction(input_file, output_format).default_output
    /\ pc' = "ask_output"
    /\ UNCHANGED <<input_file, output_file, output_format, exitCode, cancelled,
                   exc, use_weasyprint, nBlocks, tmp, acquisitions, scratchFiles,
                   scratchOut, dest, calls, failedAt>>

\* Ask for output file if not provided.
AskOutput ==
    /\ UNCHANGED <<textVars, mermaidVars>>
    /\ pc = "ask_output"
    /\ IF output_file # <<>>
       THEN /\ pc' = "dispatch"
            /\ UNCHANGED <<output_file, exitCode, cancelled, failedAt>>
       ELSE \E typed \in {"text", "empty", "KeyboardInterrupt", "EOFError"} :
              CASE typed = "KeyboardInterrupt" ->
                     /\ Exit(0)
                     /\ cancelled' = TRUE
                     /\ UNCHANGED <<output_file, failedAt>>
                [] typed = "EOFError" ->
                     /\ Exit(1)
                     /\ failedAt' = "prompt"
                     /\ UNCHANGED <<output_file, cancelled>>
                [] OTHER ->
                     /\ output_file' = IF typed = "empty" THEN default_output
                                       ELSE UserOutput
                     /\ pc' = "dispatch"
                     /\ UNCHANGED <<exitCode, cancelled, failedAt>>
    /\ UNCHANGED <<input_file, output_format, direction, default_output, exc,
                   use_weasyprint, nBlocks, tmp, acquisitions, scratchFiles,
                   scratchOut, dest, calls>>

\* Run the appropriate conversion.
Dispatch ==
    /\ UNCHANGED <<textVars, mermaidVars>>
    /\ pc = "dispatch"
    /\ pc' = IF direction = "docx2md" THEN "docx_exists" ELSE "md_exists"
    /\ UNCHANGED <<input_file, output_file, output_format, direction,
                   default_output, exitCode, cancelled, exc, use_weasyprint,
                   nBlocks, tmp, acquisitions, scratchFiles, scratchOut, dest,
                   calls, failedAt>>

(***************************************************************************)
(* convert_docx_to_md                                                      *)
(***************************************************************************)
DocxExists ==
    /\ UNCHANGED <<textVars, mermaidVars>>
    /\ pc = "docx_exists"
    /\ \E exists \in BOOLEAN :
         IF ~exists
         THEN /\ Exit(1)
              /\ failedAt' = "missing_file"
         ELSE /\ pc' = "docx_convert"
              /\ UNCHANGED <<exitCode, failedAt>>
    /\ UNCHANGED <<input_file, output_file, output_format, direction,
                   default_output, cancelled, exc, use_weasyprint, nBlocks, tmp,
                   acquisitions, scratchFiles, scratchOut, dest, calls>>

\* pypandoc.convert_file(input_file, 'markdown', outputfile=output_file, ...):
\* the engine writes the destination itself.  A failing engine may have
\* written nothing or part of the file before it fails.
DocxConvert ==
    /\ UNCHANGED <<textVars, mermaidVars>>
    /\ pc = "docx_convert"
    /\ \E outcome \in {"ok", "OSError", "Exception"}, written \in {"untouched", "partial"} :
         IF outcome = "ok"
         THEN /\ dest' = "complete"
              /\ calls' = Append(calls, "engine_ok")
              /\ Exit(0)
              /\ UNCHANGED failedAt
         ELSE /\ dest' = written
              /\ calls' = Append(calls, "engine_raise")
              /\ Exit(1)
              /\ failedAt' = "engine"
    /\ UNCHANGED <<input_file, output_file, output_format, direction,
                   default_output, cancelled, exc, use_weasyprint, nBlocks, tmp,
                   acquisitions, scratchFiles, scratchOut>>

(***************************************************************************)
(* convert_md_to_output                                                    *)
(***************************************************************************)
MdExists ==
    /\ UNCHANGED <<textVars, mermaidVars>>
    /\ pc = "md_exists"
    /\ \E exists \in BOOLEAN :
         IF ~exists
         THEN /\ Exit(1)
              /\ failedAt' = "missing_file"
         ELSE /\ pc' = "md_probe"
              /\ UNCHANGED <<exitCode, failedAt>>
    /\ UNCHANGED <<input_file, output_file, output_format, direction,
                   default_output, cancelled, exc, use_weasyprint, nBlocks, tmp,
                   acquisitions, scratchFiles, scratchOut, dest, calls>>

\* _can_use_weasyprint: the executable exists and --info returns 0 within
\* the timeout.
_can_use_weasyprint(exe_exists, probe) ==
    IF ~exe_exists THEN FALSE
    ELSE IF probe = "returncode_0" THEN TRUE
    ELSE FALSE

ProbeOutcomes == {"returncode_0", "returncode_nonzero", "timeout", "cannot_start"}

\* For PDF, try Pandoc + WeasyPrint first, then fall back to xhtml2pdf.
MdProbe ==
    /\ UNCHANGED <<textVars, mermaidVars>>
    /\ pc = "md_probe"
    /\ IF output_format = "pdf"
       THEN \E exe_exists \in BOOLEAN, probe \in ProbeOutcomes :
              /\ use_weasyprint' = _can_use_weasyprint(exe_exists, probe)
              /\ calls' = Append(calls,
                     IF _can_use_weasyprint(exe_exists, probe)
                     THEN "probe_usable" ELSE "probe_unusable")
       ELSE /\ use_weasyprint' = FALSE
            /\ UNCHANGED calls
    /\ pc' = "md_read"
    /\ UNCHANGED <<input_file, output_file, output_format, direction,
                   default_output, exitCode, cancelled, exc, nBlocks, tmp,
                   acquisitions, scratchFiles, scratchOut, dest, failedAt>>

\* open(input_file, encoding='utf-8-sig').read(), then the two text
\* transforms (which cannot fail).  The read fails with an OSError when the
\* file cannot be opened and with a UnicodeDecodeError when it is not UTF-8.
MdRead ==
    /\ UNCHANGED <<textVars, mermaidVars>>
    /\ pc = "md_read"
    /\ \E outcome \in {"ok", "OSError", "Exception"} :
         IF outcome = "ok"
         THEN /\ \E n \in 0..MaxBlocks : nBlocks' = n
              /\ pc' = "md_acquire"
              /\ UNCHANGED <<exc, failedAt>>
         ELSE /\ exc' = outcome
              /\ failedAt' = "read"
              /\ pc' = "md_except"
              /\ UNCHANGED nBlocks
    /\ UNCHANGED <<input_file, output_file, output_format, direction,
                   default_output, exitCode, cancelled, use_weasyprint, tmp,
                   acquisitions, scratchFiles, scratchOut, dest, calls>>

\* with tempfile.TemporaryDirectory() as tmp_dir:
MdAcquire ==
    /\ UNCHANGED <<textVars, mermaidVars>>
    /\ pc = "md_acquire"
    /\ \E outcome \in {"ok", "OSError"} :
         IF outcome = "ok"
         THEN /\ tmp' = "held"
              /\ acquisitions' = acquisitions + 1
              /\ pc' = "md_render"
              /\ UNCHANGED <<exc, failedAt>>
         ELSE /\ exc' = "OSError"
              /\ failedAt' = "acquire"
              /\ pc' = "md_except"
              /\ UNCHANGED <<tmp, acquisitions>>
    /\ UNCHANGED <<input_file, output_file, output_format, direction,
                   default_output, exitCode, cancelled, use_weasyprint, nBlocks,
                   scratchFiles, scratchOut, dest, calls>>

\* The branch taken after the diagrams are rendered: the engine directly, or
\* for PDF the engine with WeasyPrint when usable and the fallback otherwise.
EngineRoute_AlwaysPrimary(fmt, use_wp) == "md_primary"

EngineRoute(fmt, use_wp) ==
    IF fmt # "pdf" THEN "md_primary"
    ELSE IF use_wp THEN "md_primary"
    ELSE "md_fallback"

\* content = render_mermaid_blocks(content, tmp_dir): every block is
\* requested; the ones that succeed leave an image in the scratch directory.
\* It never raises.
MdRender ==
    /\ UNCHANGED <<textVars, mermaidVars>>
    /\ pc = "md_render"
    /\ \E ok \in SUBSET (1..nBlocks) :
         scratchFiles' = scratchFiles \cup {<<"mermaid", k>> : k \in ok}
    /\ pc' = EngineRoute(output_format, use_weasyprint)
    /\ UNCHANGED <<input_file, output_file, output_format, direction,
                   default_output, exitCode, cancelled, exc, use_weasyprint,
                   nBlocks, tmp, acquisitions, scratchOut, dest, calls, failedAt>>

\* The engine given the destination as its output file.
MdPrimary_DirectWrite ==
    /\ UNCHANGED <<textVars, mermaidVars>>
    /\ pc = "md_primary"
    /\ \E outcome \in {"ok", "OSError", "Exception"}, written \in {"untouched", "partial"} :
         IF outcome = "ok"
         THEN /\ dest' = "complete"
              /\ calls' = Append(calls, "primary_ok")
              /\ pc' = "md_copy"
              /\ UNCHANGED <<exc, failedAt>>
         ELSE /\ dest' = written
              /\ calls' = Append(calls, "primary_raise")
              /\ IF output_format = "pdf"
                 THEN /\ pc' = "md_fallback"
                      /\ UNCHANGED <<exc, failedAt>>
                 ELSE /\ exc' = outcome
                      /\ failedAt' = "engine"
                      /\ pc' = "with_exit"
    /\ UNCHANGED <<input_file, output_file, output_format, direction,
                   default_output, exitCode, cancelled, use_weasyprint, nBlocks,
                   tmp, acquisitions, scratchFiles, scratchOut>>

\* pypandoc.convert_text(content, output_format, outputfile=tmp_output, ...).
\* For PDF an exception of the engine leads to the fallback; otherwise it
\* leaves the with block.
MdPrimary ==
    /\ UNCHANGED <<textVars, mermaidVars>>
    /\ pc = "md_primary"
    /\ \E outcome \in {"ok", "OSError", "Exception"}, written \in {"absent", "partial"} :
         IF outcome = "ok"
         THEN /\ scratchOut' = "complete"
              /\ scratchFiles' = scratchFiles \cup {<<"output", 0>>}
              /\ calls' = Append(calls, "primary_ok")
              /\ pc' = "md_copy"
              /\ UNCHANGED <<exc, failedAt>>
         ELSE /\ scratchOut' = written
              /\ scratchFiles' = IF written = "absent" THEN scratchFiles
                                 ELSE scratchFiles \cup {<<"output", 0>>}
              /\ calls' = Append(calls, "primary_raise")
              /\ IF output_format = "pdf"
                 THEN /\ pc' = "md_fallback"
                      /\ UNCHANGED <<exc, failedAt>>
                 ELSE /\ exc' = outcome
                      /\ failedAt' = "engine"
                      /\ pc' = "with_exit"
    /\ UNCHANGED <<input_file, output_file, output_format, direction,
                   default_output, exitCode, cancelled, use_weasyprint, nBlocks,
                   tmp, acquisitions, dest>>

\* _convert_pdf_with_xhtml2pdf(content, tmp_output, ...): Markdown -> HTML by
\* the engine, then HTML -> PDF by xhtml2pdf into the scratch output file.
\* The engine may raise before the file is opened; once it is opened the
\* file exists, and a renderer error raises RuntimeError.
_convert_pdf_with_xhtml2pdf_IgnoreErr(html_outcome, pisa_err) ==
    IF html_outcome # "ok"
    THEN [raised |-> html_outcome, opened |-> FALSE, content |-> "absent"]
    ELSE IF pisa_err
    THEN [raised |-> "none", opened |-> TRUE, content |-> "partial"]
    ELSE [raised |-> "none", opened |-> TRUE, content |-> "complete"]

_convert_pdf_with_xhtml2pdf(html_outcome, pisa_err) ==
    IF html_outcome # "ok"
    THEN [raised |-> html_outcome, opened |-> FALSE, content |-> "absent"]
    ELSE IF pisa_err
    THEN [raised |-> "Exception", opened |-> TRUE, content |-> "partial"]
    ELSE [raised |-> "none", opened |-> TRUE, content |-> "complete"]

MdFallback ==
    /\ UNCHANGED <<textVars, mermaidVars>>
    /\ pc = "md_fallback"
    /\ \E html_outcome \in {"ok", "OSError", "Exception"}, pisa_err \in BOOLEAN :
         LET r == _convert_pdf_with_xhtml2pdf(html_outcome, pisa_err)
         IN  /\ scratchOut' = IF ~r.opened THEN scratchOut ELSE r.content
             /\ scratchFiles' = IF r.opened THEN scratchFiles \cup {<<"output", 0>>}
                                ELSE scratchFiles
             /\ IF r.raised = "none"
                THEN /\ calls' = Append(calls, "fallback_ok")
                     /\ pc' = "md_copy"
                     /\ UNCHANGED <<exc, failedAt>>
                ELSE /\ calls' = Append(calls, "fallback_raise")
                     /\ exc' = r.raised
                     /\ failedAt' = "fallback"
                     /\ pc' = "with_exit"
    /\ UNCHANGED <<input_file, output_file, output_format, direction,
                   default_output, exitCode, cancelled, use_weasyprint, nBlocks,
                   tmp, acquisitions, dest>>

\* shutil.copy2(tmp_output, output_file): the copy may fail before the
\* destination is opened (always so when the source is missing), while its
\* content is written, or while the metadata is copied after the content.
MdCopy ==
    /\ UNCHANGED <<textVars, mermaidVars>>
    /\ pc = "md_copy"
    /\ \E outcome \in IF scratchOut = "absent" THEN {"fail_open"}
                      ELSE {"ok", "fail_open", "fail_write", "fail_stat"} :
         /\ dest' = CASE outcome = "fail_open" -> dest
                      [] outcome = "fail_write" -> "partial"
                      [] OTHER -> scratchOut
         /\ calls' = Append(calls, "copy")
         /\ IF outcome = "ok"
            THEN UNCHANGED <<exc, failedAt>>
            ELSE /\ exc' = "OSError"
                 /\ failedAt' = "copy"
    /\ pc' = "with_exit"
    /\ UNCHANGED <<input_file, output_file, output_format, direction,
                   default_output, exitCode, cancelled, use_weasyprint, nBlocks,
                   tmp, acquisitions, scratchFiles, scratchOut>>

\* TemporaryDirectory.__exit__: the directory and everything in it is
\* removed, whether the block ended normally or by an exception.
TemporaryDirectoryCleanup_OnSuccessOnly(e, files) ==
    IF e = "none" THEN [tmp |-> "released", files |-> {}]
    ELSE [tmp |-> "held", files |-> files]

TemporaryDirectoryCleanup(e, files) == [tmp |-> "released", files |-> {}]

WithExit ==
    /\ UNCHANGED <<textVars, mermaidVars>>
    /\ pc = "with_exit"
    /\ tmp' = TemporaryDirectoryCleanup(exc, scratchFiles).tmp
    /\ scratchFiles' = TemporaryDirectoryCleanup(exc, scratchFiles).files
    /\ scratchOut' = IF <<"output", 0>> \in TemporaryDirectoryCleanup(exc, scratchFiles).files
                     THEN scratchOut ELSE "absent"
    /\ pc' = IF exc = "none" THEN "md_success" ELSE "md_except"
    /\ UNCHANGED <<input_file, output_file, output_format, direction,
                   default_output, exitCode, cancelled, exc, use_weasyprint,
                   nBlocks, acquisitions, dest, calls, failedAt>>

\* log_success(...); the driver returns and the program ends.
MdSuccess ==
    /\ UNCHANGED <<textVars, mermaidVars>>
    /\ pc = "md_success"
    /\ Exit(0)
    /\ UNCHANGED <<input_file, output_file, output_format, direction,
                   default_output, cancelled, exc, use_weasyprint, nBlocks, tmp,
                   acquisitions, scratchFiles, scratchOut, dest, calls, failedAt>>

\* A handler that reports the error and lets the driver return.
MdExcept_Return ==
    /\ UNCHANGED <<textVars, mermaidVars>>
    /\ pc = "md_except"
    /\ exc \in {"OSError", "Exception"}
    /\ Exit(0)
    /\ UNCHANGED <<input_file, output_file, output_format, direction,
                   default_output, cancelled, exc, use_weasyprint, nBlocks, tmp,
                   acquisitions, scratchFiles, scratchOut, dest, calls, failedAt>>

\* except OSError / except Exception: both handlers end in sys.exit(1).
MdExcept ==
    /\ UNCHANGED <<textVars, mermaidVars>>
    /\ pc = "md_except"
    /\ exc \in {"OSError", "Exception"}
    /\ Exit(1)
    /\ UNCHANGED <<input_file, output_file, output_format, direction,
                   default_output, cancelled, exc, use_weasyprint, nBlocks, tmp,
                   acquisitions, scratchFiles, scratchOut, dest, calls, failedAt>>

Next ==
    \/ ParseArgs
    \/ AskInput
    \/ RequireInput
    \/ PickFormat
    \/ Detect
    \/ AskOutput
    \/ Dispatch
    \/ DocxExists
    \/ DocxConvert
    \/ MdExists
    \/ MdProbe
    \/ MdRead
    \/ MdAcquire
    \/ MdRender
    \/ MdPrimary
    \/ MdFallback
    \/ MdCopy
    \/ WithExit
    \/ MdSuccess
    \/ MdExcept

Spec == Init /\ [][Next]_vars

(***************************************************************************)
(* The text transforms applied to texts built from fragments.              *)
(***************************************************************************)
TextFrags ==
    { <<"-", "-", "-", "\n", "a", "\n", "-", "-", "-", "\n">>,  \* a metadata block
      DASHES,
      DOTS,
      <<"a">>,
      <<"\n">>,
      <<"\r">>,
      <<" ">>,
      <<"\t">>,
      <<BOM>> }

DriverIdle ==
    /\ pc = "idle"
    /\ input_file = <<>>
    /\ output_file = <<>>
    /\ output_format = "none"
    /\ direction = "none"
    /\ default_output = <<>>
    /\ exitCode = NoExit
    /\ cancelled = FALSE
    /\ exc = "none"
    /\ use_weasyprint = FALSE
    /\ nBlocks = 0
    /\ tmp = "none"
    /\ acquisitions = 0
    /\ scratchFiles = {}
    /\ scratchOut = "absent"
    /\ dest = "untouched"
    /\ calls = <<>>
    /\ failedAt = "none"

InitText ==
    /\ DriverIdle
    /\ tstage = "input"
    /\ text = <<>>
    /\ nfrags = 0
    /\ once = <<>>
    /\ warned = FALSE
    /\ twice = <<>>
    /\ normalised = <<>>
    /\ MermaidOff

AppendTextFrag ==
    /\ tstage = "input"
    /\ nfrags < MaxTextFrags
    /\ \E f \in TextFrags : text' = text \o f
    /\ nfrags' = nfrags + 1
    /\ UNCHANGED <<tstage, once, warned, twice, normalised>>
    /\ UNCHANGED <<driverVars, mermaidVars>>

\* content = strip_yaml_front_matter(content)
StripOnce ==
    /\ tstage = "input"
    /\ once' = strip_yaml_front_matter(text).result
    /\ warned' = strip_yaml_front_matter(text).warned
    /\ tstage' = "stripped"
    /\ UNCHANGED <<text, nfrags, twice, normalised>>
    /\ UNCHANGED <<driverVars, mermaidVars>>

\* the stripper applied to its own result
StripTwice ==
    /\ tstage = "stripped"
    /\ twice' = strip_yaml_front_matter(once).result
    /\ tstage' = "restripped"
    /\ UNCHANGED <<text, nfrags, once, warned, normalised>>
    /\ UNCHANGED <<driverVars, mermaidVars>>

\* content = re.sub(r'^---\s*$', '***', content, flags=re.MULTILINE)
NormaliseRules ==
    /\ tstage = "stripped"
    /\ normalised' = normalize_rules(once)
    /\ tstage' = "normalised"
    /\ UNCHANGED <<text, nfrags, once, warned, twice>>
    /\ UNCHANGED <<driverVars, mermaidVars>>

NextText ==
    \/ AppendTextFrag
    \/ StripOnce
    \/ StripTwice
    \/ NormaliseRules

SpecText == InitText /\ [][NextText]_vars

(***************************************************************************)
(* render_mermaid_blocks applied to documents built from fragments.        *)
(***************************************************************************)
DocFrags ==
    { MERMAID_OPEN \o <<"\n", "g", "\n">> \o FENCE,             \* a block
      MERMAID_OPEN \o <<" ", "\n", "\n", "h">> \o FENCE,        \* a block
      MERMAID_OPEN \o <<"\n">>,
      FENCE,
      <<"a", "\n">>,
      <<"x">> }

InitMermaid ==
    /\ DriverIdle
    /\ TextOff
    /\ mstage = "input"
    /\ content0 = <<>>
    /\ dfrags = 0
    /\ content = <<>>
    /\ matches = <<>>
    /\ loop_i = 0
    /\ images = {}
    /\ renderedAt = {}
    /\ attempts = <<>>

AppendDocFrag ==
    /\ mstage = "input"
    /\ dfrags < MaxDocFrags
    /\ \E f \in DocFrags : content0' = content0 \o f
    /\ dfrags' = dfrags + 1
    /\ UNCHANGED <<mstage, content, matches, loop_i, images, renderedAt, attempts>>
    /\ UNCHANGED <<driverVars, textVars>>

\* matches = list(pattern.finditer(content)); if not matches: return content
FindMermaid ==
    /\ mstage = "input"
    /\ content' = content0
    /\ matches' = finditer(content0, 1)
    /\ loop_i' = 1
    /\ mstage' = IF finditer(content0, 1) = <<>> THEN "done" ELSE "loop"
    /\ UNCHANGED <<content0, dfrags, images, renderedAt, attempts>>
    /\ UNCHANGED <<driverVars, textVars>>

\* One iteration of the loop: the request, the write of the image and the
\* substitution, or an exception of any of them, which is caught.
RenderBlock ==
    /\ mstage = "loop"
    /\ loop_i <= Len(matches)
    /\ LET match == Reversed(matches)[loop_i]
           diagram_num == DiagramNum(Len(matches), loop_i)
       IN  /\ \E outcome \in {"ok", "request_failed", "http_error", "write_failed"} :
                IF outcome = "ok"
                THEN /\ images' = images \cup {diagram_num}
                     /\ content' = Splice(content, match, ImageRef(diagram_num))
                     /\ renderedAt' = renderedAt \cup {match.start}
                ELSE UNCHANGED <<images, content, renderedAt>>
           /\ attempts' = Append(attempts, match.start)
    /\ loop_i' = loop_i + 1
    /\ UNCHANGED <<mstage, content0, dfrags, matches>>
    /\ UNCHANGED <<driverVars, textVars>>

\* return content
ReturnContent ==
    /\ mstage = "loop"
    /\ loop_i > Len(matches)
    /\ mstage' = "done"
    /\ UNCHANGED <<content0, dfrags, content, matches, loop_i, images,
                   renderedAt, attempts>>
    /\ UNCHANGED <<driverVars, textVars>>

NextMermaid ==
    \/ AppendDocFrag
    \/ FindMermaid
    \/ RenderBlock
    \/ ReturnContent

SpecMermaid == InitMermaid /\ [][NextMermaid]_vars

(***************************************************************************)
(* Properties of the drivers.                                              *)
(***************************************************************************)
EngineOk == {"primary_ok", "fallback_ok"}

\* Some copy in the history directly follows a successful engine call.
CopiedAfterEngineSuccess ==
    \E i \in 2..Len(calls) : calls[i] = "copy" /\ calls[i - 1] \in EngineOk

\* The run ended by a failure that precedes the copy to the destination.
ConversionFailed ==
    failedAt \in {"missing_file", "read", "acquire", "engine", "fallback"}

\* C1: in convert_md_to_output the destination is written only by a copy that
\* directly follows a successful engine (or fallback) call into the scratch
\* output file; a run whose conversion fails leaves the destination
\* untouched, and only a failing copy can leave it partial.
C1_DestinationOnlyAfterEngineSuccess ==
    direction = "md2out" =>
        /\ dest # "untouched" => CopiedAfterEngineSuccess
        /\ ConversionFailed => dest = "untouched"
        /\ dest = "partial" => failedAt = "copy"

\* The fallback renderer failed after the primary engine had raised: the
\* scratch output is partial, the destination untouched.
C1_Witness ==
    /\ direction = "md2out"
    /\ pc = "with_exit"
    /\ Contains(calls, "primary_raise")
    /\ failedAt = "fallback"
    /\ scratchOut = "partial"
    /\ dest = "untouched"

\* C2 as stated: in every driver a run that failed in the engine (or in the
\* fallback renderer) leaves nothing at the destination.
C2_Original ==
    failedAt \in {"engine", "fallback"} => dest = "untouched"

\* C2 amended: only convert_md_to_output goes through a scratch file and a
\* copy; in convert_docx_to_md the engine writes the destination itself,
\* without scratch directory or copy, and the destination can only be
\* partial when that engine call failed.
C2_ScratchFirstOnlyForMarkdownInput ==
    /\ direction = "md2out" =>
           /\ dest # "untouched" => Contains(calls, "copy") /\ acquisitions = 1
           /\ failedAt \in {"engine", "fallback"} => dest = "untouched"
    /\ direction = "docx2md" =>
           /\ acquisitions = 0 /\ tmp = "none" /\ ~Contains(calls, "copy")
           /\ dest # "untouched" => calls \in {<<"engine_ok">>, <<"engine_raise">>}
           /\ dest = "partial" => failedAt = "engine" /\ exitCode = 1

\* A failed DOCX-to-Markdown run that left part of the output at the
\* destination.
C2_Witness ==
    /\ direction = "docx2md"
    /\ pc = "done"
    /\ exitCode = 1
    /\ failedAt = "engine"
    /\ dest = "partial"

\* C3: the scratch directory is acquired at most once, and once the with
\* block of convert_md_to_output is left (before the function returns or the
\* error handler exits) it is released and nothing remains in it.
C3_ScratchReleasedOnEveryExit ==
    /\ acquisitions <= 1
    /\ (acquisitions = 0) <=> (tmp = "none")
    /\ pc \in {"md_success", "md_except", "done"} =>
           /\ tmp \in {"none", "released"}
           /\ scratchFiles = {}
           /\ scratchOut = "absent"

\* The error handler is reached after a copy failure with the directory
\* already gone.
C3_Witness ==
    /\ pc = "md_except"
    /\ failedAt = "copy"
    /\ acquisitions = 1
    /\ tmp = "released"
    /\ scratchFiles = {}

FallbackRuns == Count(calls, {"fallback_ok", "fallback_raise"})

PrimaryRuns == Count(calls, {"primary_ok", "primary_raise"})

ProbeRuns == Count(calls, {"probe_usable", "probe_unusable"})

FallbackCondition ==
    /\ output_format = "pdf"
    /\ Contains(calls, "probe_unusable") \/ Contains(calls, "primary_raise")

\* What C4 says besides the 'exactly when': at most one fallback, no primary
\* call after an unusable probe, the primary before any fallback after a
\* usable one, and neither probe nor fallback for non-PDF output.
C4_Order ==
    /\ FallbackRuns <= 1
    /\ ProbeRuns <= 1
    /\ Contains(calls, "probe_unusable") => PrimaryRuns = 0
    /\ (Contains(calls, "probe_usable") /\ FallbackRuns = 1) =>
           \E i \in 1..Len(calls), j \in 1..Len(calls) :
               /\ i < j
               /\ calls[i] = "primary_raise"
               /\ calls[j] \in {"fallback_ok", "fallback_raise"}
    /\ output_format # "pdf" => ProbeRuns = 0 /\ FallbackRuns = 0
    /\ direction = "docx2md" => ProbeRuns = 0 /\ FallbackRuns = 0

Converted == failedAt = "none" /\ ~cancelled /\ dest = "complete"

ExtensionStarts(p) ==
    {d \in 2..Len(p) :
        /\ p[d] = "."
        /\ \A j \in (d + 1)..Len(p) : p[j] \notin {".", "/"}
        /\ \E k \in 1..(d - 1) :
               /\ p[k] \notin {".", "/"}
               /\ \A j \in k..(d - 1) : p[j] # "/"}

SameLetter(c, l) ==
    \/ c = l
    \/ <<c, l>> \in {<<"D", "d">>, <<"O", "o">>, <<"C", "c">>, <<"X", "x">>}

\* The extension of p is e, compared case-insensitively (e is lower case).
HasExtension(p, e) ==
    \E d \in ExtensionStarts(p) :
        /\ Len(p) - d + 1 = Len(e)
        /\ \A k \in 1..Len(e) : SameLetter(p[d + k - 1], e[k])

\* The path without its extension.
WithoutExtension(p) ==
    LET starts == ExtensionStarts(p)
    IN  IF starts = {} THEN p
        ELSE Slice(p, 1, (CHOOSE d \in starts : TRUE) - 1)

DocxDriverPcs == {"docx_exists", "docx_convert"}

MdDriverPcs == {"md_exists", "md_probe", "md_read", "md_acquire", "md_render",
                "md_primary", "md_fallback", "md_copy", "with_exit",
                "md_success", "md_except"}

\* C10: the direction is docx2md exactly when the extension of the input is
\* .docx in any letter case; the default output is the input with its
\* extension replaced by .md, or by the format for Markdown input; the
\* driver that runs is the one of that direction.
C10_DirectionAndDefaultOutput ==
    /\ direction # "none" =>
           /\ (direction = "docx2md") <=> HasExtension(input_file, DOCX_EXT)
           /\ (direction = "md2out") <=> ~HasExtension(input_file, DOCX_EXT)
           /\ direction = "docx2md" =>
                  default_output = WithoutExtension(input_file) \o MD_EXT
           /\ direction = "md2out" =>
                  default_output = WithoutExtension(input_file) \o <<".">>
                                       \o FormatChars(output_format)
           /\ output_format \in FormatChoices
    /\ pc \in DocxDriverPcs => direction = "docx2md"
    /\ pc \in MdDriverPcs => direction = "md2out"
    /\ (direction # "none" /\ input_file = <<"r", ".", "d", "o", "c", "x">>) =>
           direction = "docx2md" /\ default_output = <<"r", ".", "m", "d">>
    /\ (direction # "none" /\ input_file = <<"r", ".", "m", "d">>
           /\ output_format = "pdf") =>
           direction = "md2out" /\ default_output = <<"r", ".", "p", "d", "f">>

\* A mixed-case .DocX input given with -f pdf reached the DOCX driver.
C10_Witness ==
    /\ pc = "docx_convert"
    /\ input_file = <<"r", ".", "D", "o", "c", "X">>
    /\ output_format = "pdf"
    /\ default_output = <<"r", ".", "m", "d">>

(***************************************************************************)
(* Properties of the text transforms, stated on the lines of the text.     *)
(***************************************************************************)
Newlines(t) == {i \in 1..Len(t) : t[i] = "\n"}

\* The lines of t that end with a newline, as pairs <<first, newline>> of
\* positions (first = newline for an empty line).
TerminatedLines(t) ==
    {<<a, n>> \in (1..Len(t)) \X Newlines(t) :
        /\ a <= n
        /\ a = 1 \/ t[a - 1] = "\n"
        /\ \A j \in a..(n - 1) : t[j] # "\n"}

\* The line is one of the markers followed by blanks, with either line
\* ending.
IsMarkerLine(t, line, markers) ==
    LET a == line[1]
        b == line[2] - 1
        c == IF b >= a /\ t[b] = "\r" THEN b - 1 ELSE b
    IN  /\ c >= a + 2
        /\ Slice(t, a, a + 2) \in markers
        /\ \A j \in (a + 3)..c : t[j] \in {" ", "\t"}

StartsWithMarkerLine(t) ==
    \E line \in TerminatedLines(t) :
        line[1] = 1 /\ IsMarkerLine(t, line, {DASHES})

\* A closing marker line somewhere after the first line.
HasClosingMarkerLine(t) ==
    \E line \in TerminatedLines(t) :
        line[1] > 1 /\ IsMarkerLine(t, line, {DASHES, DOTS})

\* The closing lines of a leading block: marker lines from the third line on.
BlockClosers(t) ==
    {line \in TerminatedLines(t) :
        /\ IsMarkerLine(t, line, {DASHES, DOTS})
        /\ \E first \in TerminatedLines(t) : first[1] = 1 /\ first[2] + 1 < line[1]}

HasLeadingBlock(t) == StartsWithMarkerLine(t) /\ BlockClosers(t) # {}

\* The text after the first closing line of the leading block.
AfterLeadingBlock(t) ==
    LET closer == CHOOSE line \in BlockClosers(t) :
                      \A other \in BlockClosers(t) : line[1] <= other[1]
    IN  From(t, closer[2] + 1)

\* The text from its first character that is not a byte-order mark.
WithoutLeadingBOMs(t) ==
    LET rest == {i \in 1..Len(t) : t[i] # BOM}
    IN  IF rest = {} THEN <<>>
        ELSE From(t, CHOOSE i \in rest : \A j \in rest : i <= j)

\* C7 as stated: the stripper applied to its own result changes nothing.
C7_Original ==
    tstage = "restripped" => twice = once

\* C7 amended: a second application is a no-op exactly when the result of
\* the first does not itself begin with a byte-order mark or with a complete
\* metadata block; otherwise the second application removes that too.
C7_IdempotentUnlessBodyStartsWithBlock ==
    tstage = "restripped" =>
        /\ (twice = once) <=>
               /\ ~(Len(once) > 0 /\ once[1] = BOM)
               /\ ~HasLeadingBlock(once)
        /\ (text = once) => (twice = once)

\* A block was stripped from a text with a byte-order mark, and stripping
\* the result again changed nothing.
C7_Witness ==
    /\ tstage = "restripped"
    /\ Len(text) > 0 /\ text[1] = BOM
    /\ HasLeadingBlock(WithoutLeadingBOMs(text))
    /\ once # <<>>
    /\ twice = once

\* The result has one leading block removed, or none.
AtMostOneBlockRemoved(t) ==
    IF HasLeadingBlock(t) THEN once = AfterLeadingBlock(t) /\ ~warned
    ELSE once = t /\ warned

\* C9 as stated: a text without a marker line at its very start, or without
\* a closing marker line, comes back character for character, with the
\* warning.
C9_Original ==
    (/\ tstage # "input"
     /\ ~StartsWithMarkerLine(text) \/ ~HasClosingMarkerLine(text)) =>
        once = text /\ warned

\* C9 amended: such a text comes back with its leading byte-order marks
\* removed and otherwise unchanged, with the warning (the marker line is
\* looked for after the byte-order marks); and on every input at most one
\* leading block is removed, up to its first closing line.
C9_UnchangedUpToBOMWithoutBlock ==
    tstage # "input" =>
        LET t == WithoutLeadingBOMs(text)
        IN  /\ (~StartsWithMarkerLine(t) \/ ~HasClosingMarkerLine(t)) =>
                   once = t /\ warned
            /\ AtMostOneBlockRemoved(t)

\* A text with byte-order marks and an opening marker line but no closing
\* line was returned without the marks, with the warning.
C9_Witness ==
    /\ tstage = "stripped"
    /\ Len(text) > 4 /\ text[1] = BOM
    /\ StartsWithMarkerLine(WithoutLeadingBOMs(text))
    /\ ~HasClosingMarkerLine(WithoutLeadingBOMs(text))
    /\ once = WithoutLeadingBOMs(text)
    /\ warned

\* A line that is --- with optional whitespace around it.
IsRuleLine(line) ==
    \E a \in 1..Len(line) :
        /\ a + 2 <= Len(line)
        /\ Slice(line, a, a + 2) = DASHES
        /\ \A j \in 1..(a - 1) : line[j] \in {" ", "\t", "\r"}
        /\ \A j \in (a + 3)..Len(line) : line[j] \in {" ", "\t", "\r"}

RECURSIVE RewriteRuleLines(_, _)
\* Line by line from position i: a rule line becomes ***, every other line
\* and every newline stays.
RewriteRuleLines(t, i) ==
    IF i > Len(t) THEN <<>>
    ELSE LET after == {n \in Newlines(t) : n >= i}
             n == IF after = {} THEN Len(t) + 1
                  ELSE CHOOSE k \in after : \A j \in after : k <= j
             line == Slice(t, i, n - 1)
             out == IF IsRuleLine(line) THEN STARS ELSE line
         IN  IF n > Len(t) THEN out
             ELSE out \o <<"\n">> \o RewriteRuleLines(t, n + 1)

\* C8: the substitution rewrites exactly the rule lines to *** and leaves
\* every other line, and the number of lines, as they were.
C8_OnlyRuleLinesRewritten ==
    tstage = "normalised" =>
        /\ normalised = RewriteRuleLines(once, 1)
        /\ Cardinality(Newlines(normalised)) = Cardinality(Newlines(once))

(***************************************************************************)
(* Properties of render_mermaid_blocks.                                    *)
(***************************************************************************)
RECURSIVE ExpectedContent(_, _)
\* The text from block k on, built in document order: a block whose render
\* succeeded becomes the reference numbered k, a block whose render failed
\* and the text around the blocks are copied from the original.
ExpectedContent(k, pos) ==
    IF k > Len(matches) THEN From(content0, pos)
    ELSE Slice(content0, pos, matches[k].start - 1)
           \o (IF matches[k].start \in renderedAt
               THEN <<ImageRef(k)>>
               ELSE Slice(content0, matches[k].start, matches[k].end))
           \o ExpectedContent(k + 1, matches[k].end + 1)

IsImageRef(c) == \E k \in 1..(MaxDocFrags + 1) : c = ImageRef(k)

\* C6: render_mermaid_blocks returns whatever the outcome of each request;
\* every block was requested; the returned text has the failed blocks
\* verbatim, the rendered ones replaced by the reference numbered by their
\* position in the document, whose image exists, and the rest unchanged.
C6_PartialFailureSubstitution ==
    mstage = "done" =>
        /\ content = ExpectedContent(1, 1)
        /\ images = {k \in 1..Len(matches) : matches[k].start \in renderedAt}
        /\ {attempts[i] : i \in 1..Len(attempts)}
               = {matches[k].start : k \in 1..Len(matches)}
        /\ Len(attempts) = Len(matches)
        /\ renderedAt = {} => content = content0
        /\ Cardinality(renderedAt) = Len(matches) =>
               SelectSeq(content, IsImageRef) = [k \in 1..Len(matches) |-> ImageRef(k)]

\* Of two blocks the first failed and the second was rendered.
C6_Witness ==
    /\ mstage = "done"
    /\ Len(matches) = 2
    /\ renderedAt = {matches[2].start}
    /\ images = {2}
    /\ content # content0
====
